---------------------------- MODULE Spec2Model ----------------------------
(***************************************************************************)
(* Model of the Finanzassistent (src/main.py; src/streamlit_app.py holds   *)
(* the same functions without docstrings).                                 *)
(*                                                                         *)
(* Numbers.  Amounts are integers (whole Euro), quotients and products     *)
(* with the rates 0.5 / 0.3 / 0.1 are exact rationals [z, n] in lowest     *)
(* terms.  The binary rounding of Python floats is not represented.        *)
(* Dictionaries.  A Python dict that is iterated (ausgaben) is a sequence  *)
(* of [k, v] entries in insertion order with unique keys; a dict that is   *)
(* only looked up (praef, fitnessdaten) is a function on its key set.      *)
(* Strings with umlauts are written with ae/oe/ue.                         *)
(***************************************************************************)
EXTENDS Integers, Sequences, FiniteSets, TLC

VARIABLES
    fn,       \* function harness: the function under call
    arg,      \* function harness: its arguments (a record)
    ret,      \* function harness: its result (a record), NichtGerufen before the call
    pc,       \* "call" / "return" (harness), "pending" / "done" (runs of main)
    session,  \* the browser session: widget values, rendered widgets, trigger of the rerun
    run       \* the last run of main: its locals, its event log, how it ended

vars == <<fn, arg, ret, pc, session, run>>

----------------------------------------------------------------------------
(* Bounds of the model *)

MaxTx == 3        \* transactions in bankdaten.json
MaxKat == 2       \* categories in a spend mapping handed to the recommendation functions
MaxTage == 3      \* entries of Schritte_pro_Tag
MaxAkt == 2       \* entries of Sportaktivitaeten
MaxLaeufe == 4    \* reruns of main in one browser session

Kategorien == {"Miete", "Lohn", "Essen"}
Betraege == {-800, -50, 0, 2000}
Schrittwerte == {6000, 7999, 8000, 10000}
Sportarten == {"Yoga", "Laufen"}
Labels == {"hoch", "mittel", "niedrig", "sehr hoch"}

----------------------------------------------------------------------------
(* Python values *)

Abs(x) == IF x < 0 THEN -x ELSE x

RECURSIVE GCD(_, _)
GCD(a, b) == IF b = 0 THEN a ELSE GCD(b, a % b)

\* exact rationals in lowest terms, n > 0
Rat(z, n) == LET g == GCD(Abs(z), n) IN [z |-> z \div g, n |-> n \div g]
RatInt(i) == [z |-> i, n |-> 1]
RatMul(p, q) == Rat(p.z * q.z, p.n * q.n)
RatSub(p, q) == Rat(p.z * q.n - q.z * p.n, p.n * q.n)
RatLt(p, q) == p.z * q.n < q.z * p.n
RatLe(p, q) == p.z * q.n <= q.z * p.n

\* a / b of Python: a ZeroDivisionError for b = 0
ZeroDivisionError == "ZeroDivisionError"
TrueDiv(a, b) == IF b = 0 THEN [fehler |-> ZeroDivisionError] ELSE Rat(a, b)
IstFehler(x) == "fehler" \in DOMAIN x

\* f"{x:.0f}" and f"{x:.2f}": the nearest integer (number of hundredths), ties to even
RoundHalfEven(q) ==
    LET fl == q.z \div q.n
        r2 == 2 * (q.z % q.n)
    IN  IF r2 < q.n THEN fl
        ELSE IF r2 > q.n THEN fl + 1
        ELSE IF fl % 2 = 0 THEN fl ELSE fl + 1
Format0f(q) == RoundHalfEven(q)
Format2f(q) == RoundHalfEven(RatMul(q, RatInt(100)))

RECURSIVE SumSeq(_, _)
\* sum(schritte): left to right
SumSeq(s, i) == IF i > Len(s) THEN 0 ELSE s[i] + SumSeq(s, i + 1)

\* dict.get(key, default) of a looked-up dict
Get(d, key, default) == IF key \in DOMAIN d THEN d[key] ELSE default
EmptyDict == [x \in {} |-> 0]

\* the iterated dict ausgaben: entries in insertion order
RECURSIVE ItemIndex(_, _, _)
ItemIndex(d, key, i) ==
    IF i > Len(d) THEN 0 ELSE IF d[i].k = key THEN i ELSE ItemIndex(d, key, i + 1)
ItemsGet(d, key, default) ==
    LET i == ItemIndex(d, key, 1) IN IF i = 0 THEN default ELSE d[i].v
ItemsSet_ans_Ende(d, key, value) ==
    SelectSeq(d, LAMBDA x : x.k # key) \o <<[k |-> key, v |-> value]>>

\* ausgaben[key] = value: a new key is appended, a present key keeps its place
ItemsSet(d, key, value) ==
    LET i == ItemIndex(d, key, 1)
    IN  IF i = 0 THEN Append(d, [k |-> key, v |-> value])
        ELSE [d EXCEPT ![i] = [k |-> key, v |-> value]]
ItemsKeys(d) == {d[i].k : i \in 1..Len(d)}

SeqsUpTo(S, n) == UNION {[1..m -> S] : m \in 0..n}

----------------------------------------------------------------------------
(* berechne_monatliche_ausgaben *)

IstAusgabe_le(betrag) == betrag <= 0

\* main.py:46  if betrag < 0
IstAusgabe(betrag) == betrag < 0

RECURSIVE AusgabenSchleife(_, _, _)
\* main.py:43-47  the loop over daten, from transaction i on
AusgabenSchleife(daten, i, ausgaben) ==
    IF i > Len(daten) THEN ausgaben
    ELSE LET kategorie == daten[i].kategorie
             betrag == daten[i].betrag
         IN  AusgabenSchleife(daten, i + 1,
                 IF IstAusgabe(betrag)
                 THEN ItemsSet(ausgaben, kategorie,
                               ItemsGet(ausgaben, kategorie, 0) + Abs(betrag))
                 ELSE ausgaben)

berechne_monatliche_ausgaben(daten) == AusgabenSchleife(daten, 1, <<>>)

----------------------------------------------------------------------------
(* empfehle_einsparungen *)

Rate_hoch == Rat(5, 10)      \* 0.5
Rate_mittel == Rat(3, 10)    \* 0.3
Rate_niedrig == Rat(1, 10)   \* 0.1

Prioritaet_default_mittel(prioritaeten, kategorie) == Get(prioritaeten, kategorie, "mittel")

\* main.py:97  prioritaeten.get(kategorie, "niedrig")
Prioritaet(prioritaeten, kategorie) == Get(prioritaeten, kategorie, "niedrig")

Einsparung_vertauscht(betrag, prioritaet) ==
    IF prioritaet = "hoch"
    THEN [neue_rate |-> RatSub(RatInt(betrag), RatMul(RatInt(betrag), Rate_mittel)), prozent |-> 50]
    ELSE IF prioritaet = "mittel"
    THEN [neue_rate |-> RatSub(RatInt(betrag), RatMul(RatInt(betrag), Rate_hoch)), prozent |-> 30]
    ELSE [neue_rate |-> RatSub(RatInt(betrag), RatMul(RatInt(betrag), Rate_niedrig)), prozent |-> 10]

\* main.py:98-109  einsparung = betrag * rate; neue_rate = betrag - einsparung;
\* the percentage is the one written into the text
Einsparung(betrag, prioritaet) ==
    IF prioritaet = "hoch"
    THEN LET einsparung == RatMul(RatInt(betrag), Rate_hoch)
         IN  [neue_rate |-> RatSub(RatInt(betrag), einsparung), prozent |-> 50]
    ELSE IF prioritaet = "mittel"
    THEN LET einsparung == RatMul(RatInt(betrag), Rate_mittel)
         IN  [neue_rate |-> RatSub(RatInt(betrag), einsparung), prozent |-> 30]
    ELSE LET einsparung == RatMul(RatInt(betrag), Rate_niedrig)
         IN  [neue_rate |-> RatSub(RatInt(betrag), einsparung), prozent |-> 10]

\* main.py:94-109  one st.markdown per entry of ausgaben, in its order; each output
\* keeps the value computed beside the text written ({neue_rate:.2f})
empfehle_einsparungen(ausgaben, praef) ==
    LET prioritaeten == Get(praef, "Prioritaeten", EmptyDict)
    IN  [i \in 1..Len(ausgaben) |->
            LET e == Einsparung(ausgaben[i].v, Prioritaet(prioritaeten, ausgaben[i].k))
            IN  [kategorie |-> ausgaben[i].k,
                 neue_rate |-> e.neue_rate,
                 text |-> Format2f(e.neue_rate),
                 prozent |-> e.prozent]]

----------------------------------------------------------------------------
(* analysiere_fitnessdaten, empfehle_fitness_und_sparen *)

Schrittziel == 8000
Schrittziel_Bericht == 8000

Truthy_immer(liste) == TRUE

\* main.py:143  "if schritte": a list is true when it is not empty
Truthy(liste) == Len(liste) > 0

\* main.py:142-145; raised names the exception that leaves the function
analysiere_fitnessdaten(fitnessdaten) ==
    LET schritte == Get(fitnessdaten, "Schritte_pro_Tag", <<>>)
        quotient == IF Truthy(schritte)
                    THEN TrueDiv(SumSeq(schritte, 1), Len(schritte))
                    ELSE RatInt(0)
        aktivitaeten == Get(fitnessdaten, "Sportaktivitaeten", <<>>)
    IN  IF IstFehler(quotient)
        THEN [raised |-> ZeroDivisionError, durchschnittsschritte |-> RatInt(0),
              aktivitaeten |-> <<>>]
        ELSE [raised |-> "none", durchschnittsschritte |-> quotient,
              aktivitaeten |-> aktivitaeten]

UnterZiel_le(durchschnittsschritte) == RatLe(durchschnittsschritte, RatInt(Schrittziel))

\* main.py:156  if durchschnittsschritte < 8000
UnterZiel(durchschnittsschritte) == RatLt(durchschnittsschritte, RatInt(Schrittziel))

\* main.py:214  if durchschnittsschritte < 8000
UnterZiel_Bericht(durchschnittsschritte) ==
    RatLt(durchschnittsschritte, RatInt(Schrittziel_Bericht))

\* main.py:155-163  the outputs, in order: st.warning or st.success with the
\* rounded average, then one st.write per activity
empfehle_fitness_und_sparen(durchschnittsschritte, aktivitaeten) ==
    <<[st |-> IF UnterZiel(durchschnittsschritte) THEN "warning" ELSE "success",
       schritte |-> Format0f(durchschnittsschritte)]>>
    \o [i \in 1..Len(aktivitaeten) |-> [st |-> "write", aktivitaet |-> aktivitaeten[i]]]

----------------------------------------------------------------------------
(* erstelle_monatsbericht: the report as the sequence of its lines *)

\* main.py:200-211  the branches of the report, written out a second time there
Einsparung_Bericht(betrag, prioritaet) ==
    IF prioritaet = "hoch"
    THEN LET einsparung == RatMul(RatInt(betrag), Rate_hoch)
         IN  [neue_rate |-> RatSub(RatInt(betrag), einsparung), prozent |-> 50]
    ELSE IF prioritaet = "mittel"
    THEN LET einsparung == RatMul(RatInt(betrag), Rate_mittel)
         IN  [neue_rate |-> RatSub(RatInt(betrag), einsparung), prozent |-> 30]
    ELSE LET einsparung == RatMul(RatInt(betrag), Rate_niedrig)
         IN  [neue_rate |-> RatSub(RatInt(betrag), einsparung), prozent |-> 10]

\* main.py:181-223
erstelle_monatsbericht(sparziel, zeitraum, monatliche_rate, ausgaben, praef, durchschnittsschritte, aktivitaeten) ==
    LET prioritaeten == Get(praef, "Prioritaeten", EmptyDict)
    IN  <<[art |-> "kopf", sparziel |-> sparziel, zeitraum |-> zeitraum,
           rate |-> Format2f(monatliche_rate)]>>
        \o [i \in 1..Len(ausgaben) |->
               [art |-> "ausgabe", kategorie |-> ausgaben[i].k,
                betrag |-> Format2f(RatInt(ausgaben[i].v))]]
        \o <<[art |-> "titel_einsparung"]>>
        \o [i \in 1..Len(ausgaben) |->
               LET e == Einsparung_Bericht(ausgaben[i].v,
                                           Get(prioritaeten, ausgaben[i].k, "niedrig"))
               IN  [art |-> "einsparung", kategorie |-> ausgaben[i].k,
                    text |-> Format2f(e.neue_rate), prozent |-> e.prozent]]
        \o <<[art |-> "titel_fitness"]>>
        \o <<[art |-> "fitness",
              klasse |-> IF UnterZiel_Bericht(durchschnittsschritte)
                         THEN "versuche mehr zu gehen" ELSE "weiter so",
              schritte |-> Format0f(durchschnittsschritte)]>>
        \o <<[art |-> "titel_sport"]>>
        \o [i \in 1..Len(aktivitaeten) |-> [art |-> "sport", aktivitaet |-> aktivitaeten[i]]]

ArgumenteNach_pop(a) ==
    [a EXCEPT !.aktivitaeten = IF Len(@) > 0 THEN Tail(@) ELSE @]

\* main.py:181-223  the argument objects after the call: the body reads them
\* (ausgaben.items(), praef.get, prioritaeten.get, iteration over aktivitaeten)
\* and rebinds only its locals (bericht += ... builds a new str)
ArgumenteNach_erstelle_monatsbericht(a) == a

----------------------------------------------------------------------------
(* berechne_monatliche_sparrate *)

\* main.py:267-271  the quotient, or the message for a zero period
berechne_monatliche_sparrate(sparziel, zeitraum) ==
    LET monatliche_rate == TrueDiv(sparziel, zeitraum)
    IN  IF IstFehler(monatliche_rate)
        THEN [fehler |-> "Der Zeitraum darf nicht null sein."]
        ELSE monatliche_rate

----------------------------------------------------------------------------
(* sende_email.  The mail relay is the environment: relay.fails names the  *)
(* step of the session that fails ("none": no step), relay.klasse the      *)
(* class of the exception it raises and relay.ursache its text.            *)

SmtpBody_login_zuerst == <<"login", "starttls", "send_message">>

\* main.py:249-251  the statements of the with block, in order
SmtpBody == <<"starttls", "login", "send_message">>
Erfolgstext == "Bericht wurde per E-Mail gesendet."
Fehlertext == "Fehler beim Senden der E-Mail: "

RECURSIVE BodyVersuche(_, _)
\* main.py:249-251  the statements of the with block, up to the first that raises
BodyVersuche(relay, i) ==
    IF i > Len(SmtpBody) THEN <<>>
    ELSE IF SmtpBody[i] = relay.fails THEN <<[schritt |-> SmtpBody[i], ok |-> FALSE]>>
    ELSE <<[schritt |-> SmtpBody[i], ok |-> TRUE]>> \o BodyVersuche(relay, i + 1)

\* main.py:248-251  smtplib.SMTP(...) connects; a failed connect never enters the
\* block; leaving the block, by its end or by an exception, sends QUIT
SmtpSitzung(relay) ==
    IF relay.fails = "connect" THEN <<[schritt |-> "connect", ok |-> FALSE]>>
    ELSE <<[schritt |-> "connect", ok |-> TRUE]>>
         \o BodyVersuche(relay, 1)
         \o <<[schritt |-> "quit", ok |-> relay.fails # "quit"]>>

Faengt_nur_SMTPException(klasse) == klasse # "OSError"

\* main.py:253  except Exception
Faengt(klasse) == TRUE

\* main.py:242-254
sende_email(empfaenger, betreff, inhalt, absender, smtp_server, smtp_port, smtp_user, smtp_pass, relay) ==
    LET msg == [Subject |-> betreff, From |-> absender, To |-> empfaenger, body |-> inhalt]
        smtp == SmtpSitzung(relay)
        fehler == \E i \in 1..Len(smtp) : ~smtp[i].ok
    IN  [smtp |-> smtp,
         server |-> <<smtp_server, smtp_port>>,
         login |-> <<smtp_user, smtp_pass>>,
         msg |-> msg,
         raised |-> IF fehler /\ ~Faengt(relay.klasse) THEN relay.klasse ELSE "none",
         ergebnis |-> IF ~fehler THEN [text |-> Erfolgstext, ursache |-> ""]
                      ELSE IF Faengt(relay.klasse)
                      THEN [text |-> Fehlertext, ursache |-> relay.ursache]
                      ELSE [text |-> "", ursache |-> ""]]

Ursachen == {"Connection refused", "Nachricht wurde nicht gesendet"}
KlasseVon(schritt) == IF schritt = "connect" THEN "OSError" ELSE "SMTPException"
RelayOK == [fails |-> "none", klasse |-> "none", ursache |-> ""]
Relays == {RelayOK}
          \cup {[fails |-> f, klasse |-> KlasseVon(f), ursache |-> u] :
                    f \in {"connect", "starttls", "login", "send_message", "quit"},
                    u \in Ursachen}

\* main.py:421  "gesendet" in ergebnis.lower()
EnthaeltGesendet(ergebnis) ==
    \/ ergebnis.text = Erfolgstext
    \/ ergebnis.ursache = "Nachricht wurde nicht gesendet"

----------------------------------------------------------------------------
(* The loaders.  A data file is [status, inhalt]: status "ok" (inhalt is   *)
(* the parsed JSON), "missing" (open raises FileNotFoundError) or          *)
(* "malformed" (json.load raises JSONDecodeError).                         *)

Gefangen_nur_missing(status) == status = "missing"

\* main.py:25-30  except FileNotFoundError / except json.JSONDecodeError
Gefangen(status) == status \in {"missing", "malformed"}

\* main.py:21-30 (and 74-83, 121-130): the value returned, the st.error shown,
\* the exception that leaves the loader
LadeJson(datei, default) ==
    IF datei.status = "ok"
    THEN [wert |-> datei.inhalt, error |-> "", raised |-> "none"]
    ELSE IF Gefangen(datei.status)
    THEN [wert |-> default,
          error |-> IF datei.status = "missing" THEN "nicht gefunden"
                    ELSE "Fehler beim Parsen",
          raised |-> "none"]
    ELSE [wert |-> default, error |-> "", raised |-> datei.status]

lade_bankdaten(datei) == LadeJson(datei, <<>>)
lade_praeferenzen(datei) == LadeJson(datei, EmptyDict)
lade_fitnessdaten(datei) == LadeJson(datei, EmptyDict)

\* truth value of a dict: not empty
TruthyDict(d) == DOMAIN d # {}

----------------------------------------------------------------------------
(* email_validator.validate_email: an address without a mailbox or domain  *)
(* raises EmailNotValidError, a valid one is returned normalised (the      *)
(* domain in lower case).                                                  *)

Adressen == {"", "kein-at", "Anna@Example.DE"}
AdresseGueltig(adresse) == adresse = "Anna@Example.DE"
Normalisiert(adresse) == IF adresse = "Anna@Example.DE" THEN "Anna@example.de" ELSE adresse

----------------------------------------------------------------------------
(* One run of main.  The run record holds main's locals (gebunden: the     *)
(* names assigned so far), the calls and outputs in order (log: the name   *)
(* of the call or output and a text argument), what was shown and sent     *)
(* (einsparungen, fitness_ausgabe, msg, login), the widgets rendered, the  *)
(* files as the loaders found them, the mail relay as sende_email found it *)
(* and how the run ended: "ende" (main returned), "st.stop", "exception".  *)

Ungelesen == [status |-> "ungelesen", inhalt |-> <<>>]

Run0 ==
    [ende |-> "running", log |-> <<>>, gebunden |-> {}, rendered |-> {},
     dateien |-> [bank |-> Ungelesen, praef |-> Ungelesen, fitness |-> Ungelesen],
     sparziel |-> 0, zeitraum |-> 0, monatliche_rate |-> RatInt(0),
     daten |-> <<>>, praef |-> EmptyDict, fitnessdaten |-> EmptyDict,
     ausgaben |-> <<>>, durchschnittsschritte |-> RatInt(0), aktivitaeten |-> <<>>,
     bericht |-> <<>>, ergebnis |-> [text |-> "", ursache |-> ""],
     einsparungen |-> <<>>, fitness_ausgabe |-> <<>>,
     msg |-> [Subject |-> "", From |-> "", To |-> "", body |-> <<>>],
     login |-> <<"", "">>, relay |-> RelayOK]

Emit(r, e, a) == [r EXCEPT !.log = Append(@, [e |-> e, a |-> a])]
Render(r, widget) == [r EXCEPT !.rendered = @ \cup {widget}]
Bind(r, name) == [r EXCEPT !.gebunden = @ \cup {name}]
Halt(r, wie) == [r EXCEPT !.ende = wie]
\* reading a local that no statement of this run has assigned
NameError(r, name) == Halt(Emit(r, "NameError", name), "exception")

EingabeUngueltig_and(sparziel, zeitraum) == sparziel <= 0 /\ zeitraum <= 0

\* main.py:295  if sparziel <= 0 or zeitraum <= 0
EingabeUngueltig(sparziel, zeitraum) == sparziel <= 0 \/ zeitraum <= 0

\* main.py:282-300
SchrittEingabe(r, w) ==
    LET r1 == Bind(Bind(Render(Render(r, "sparziel"), "zeitraum"), "sparziel"), "zeitraum")
        r2 == [r1 EXCEPT !.sparziel = w.sparziel, !.zeitraum = w.zeitraum]
    IN  IF EingabeUngueltig(r2.sparziel, r2.zeitraum)
        THEN Halt(Emit(r2, "st.sidebar.error", "Bitte gib positive Werte ein"), "st.stop")
        ELSE LET rate == berechne_monatliche_sparrate(r2.sparziel, r2.zeitraum)
                 r3 == Emit(r2, "berechne_monatliche_sparrate", "")
             IN  IF IstFehler(rate)
                 \* main.py:300  {monatliche_rate:.2f} of the message string: ValueError
                 THEN Halt(Emit(r3, "ValueError", "monatliche_rate"), "exception")
                 ELSE Emit(Bind([r3 EXCEPT !.monatliche_rate = rate], "monatliche_rate"),
                           "st.sidebar.markdown", "Monatliche Sparrate")

\* one loader call of main.py:304-306
LadeSchritt(r, name, quelle, geladen, variable) ==
    IF r.ende # "running" THEN r
    ELSE LET r1 == Emit([r EXCEPT !.dateien[quelle] =
                             [status |-> geladen.status, inhalt |-> geladen.inhalt]],
                        name, quelle)
         IN  IF geladen.ergebnis.raised # "none"
             THEN Halt(Emit(r1, "Exception", geladen.ergebnis.raised), "exception")
             ELSE LET r2 == IF geladen.ergebnis.error # ""
                            THEN Emit(r1, "st.error", geladen.ergebnis.error)
                            ELSE r1
                  IN  Bind([r2 EXCEPT ![variable] = geladen.ergebnis.wert], variable)

\* main.py:304-306
SchrittLaden(r, f) ==
    LET r1 == LadeSchritt(r, "lade_bankdaten", "bank",
                  [status |-> f.bank.status, inhalt |-> f.bank.inhalt,
                   ergebnis |-> lade_bankdaten(f.bank)], "daten")
        r2 == LadeSchritt(r1, "lade_praeferenzen", "praef",
                  [status |-> f.praef.status, inhalt |-> f.praef.inhalt,
                   ergebnis |-> lade_praeferenzen(f.praef)], "praef")
    IN  LadeSchritt(r2, "lade_fitnessdaten", "fitness",
                  [status |-> f.fitness.status, inhalt |-> f.fitness.inhalt,
                   ergebnis |-> lade_fitnessdaten(f.fitness)], "fitnessdaten")

RECURSIVE EmitAll(_, _, _, _)
\* one log entry per element of a sequence of texts, in its order
EmitAll(r, e, s, i) == IF i > Len(s) THEN r ELSE EmitAll(Emit(r, e, s[i]), e, s, i + 1)

\* main.py:309-316
SchrittAusgaben(r) ==
    IF r.ende # "running" THEN r
    ELSE IF Truthy(r.daten)
    THEN LET ausgaben == berechne_monatliche_ausgaben(r.daten)
             r1 == Emit(Bind([r EXCEPT !.ausgaben = ausgaben], "ausgaben"),
                        "berechne_monatliche_ausgaben", "")
             \* zeige_ausgaben, main.py:57-62
             r2 == Emit(r1, "zeige_ausgaben.plotly_chart", "Monatliche Ausgaben")
         IN  IF TruthyDict(r.praef)
             THEN [Emit(r2, "empfehle_einsparungen", "") EXCEPT
                      !.einsparungen = empfehle_einsparungen(ausgaben, r.praef)]
             ELSE r2
    ELSE Emit(r, "st.warning", "Keine Bankdaten gefunden.")

\* main.py:319-323
SchrittFitness(r) ==
    IF r.ende # "running" THEN r
    ELSE IF TruthyDict(r.fitnessdaten)
    THEN LET a == analysiere_fitnessdaten(r.fitnessdaten)
             r1 == Emit(r, "analysiere_fitnessdaten", "")
         IN  IF a.raised # "none"
             THEN Halt(Emit(r1, "Exception", a.raised), "exception")
             ELSE LET r2 == Bind(Bind([r1 EXCEPT
                                 !.durchschnittsschritte = a.durchschnittsschritte,
                                 !.aktivitaeten = a.aktivitaeten],
                                 "durchschnittsschritte"), "aktivitaeten")
                  IN  [Emit(r2, "empfehle_fitness_und_sparen", "") EXCEPT
                          !.fitness_ausgabe =
                              empfehle_fitness_und_sparen(r2.durchschnittsschritte,
                                                          r2.aktivitaeten)]
    ELSE Emit(r, "st.warning", "Keine Fitnessdaten gefunden.")

\* main.py:326-367
SchrittVisualisierung(r) ==
    IF r.ende # "running" THEN r
    ELSE LET r1 == IF Truthy(r.daten)
                   THEN IF "ausgaben" \in r.gebunden
                        THEN Emit(r, "col1.plotly_chart", "Monatliche Ausgaben")
                        ELSE NameError(r, "ausgaben")
                   ELSE r
             r2 == IF r1.ende = "running" /\ TruthyDict(r1.fitnessdaten)
                   THEN Emit(r1, "col2.plotly_chart", "Schritte pro Tag")
                   ELSE r1
         IN  IF r2.ende = "running" /\ TruthyDict(r2.fitnessdaten)
             THEN IF "aktivitaeten" \in r2.gebunden
                  THEN Emit(r2, "st.write", "Sportaktivitaeten")
                  ELSE NameError(r2, "aktivitaeten")
             ELSE r2


AlleDatenquellen_ohne_daten(r) == TruthyDict(r.praef) /\ TruthyDict(r.fitnessdaten)

AlleDatenquellen_ohne_praef(r) == Truthy(r.daten) /\ TruthyDict(r.fitnessdaten)

\* main.py:371  if daten and praef and fitnessdaten
AlleDatenquellen(r) == Truthy(r.daten) /\ TruthyDict(r.praef) /\ TruthyDict(r.fitnessdaten)

\* main.py:406  all([empfaenger, absender, smtp_server, smtp_port, smtp_user, smtp_pass])
AlleFelder(empfaenger, absender, smtp_server, smtp_port, smtp_user, smtp_pass) ==
    /\ empfaenger # "" /\ absender # "" /\ smtp_server # ""
    /\ smtp_port # 0 /\ smtp_user # "" /\ smtp_pass # ""

ValidiereBeide_nur_empfaenger(r, empfaenger, absender) ==
    LET r1 == Emit(r, "validate_email", empfaenger)
    IN  IF ~AdresseGueltig(empfaenger)
        THEN Halt(Emit(r1, "st.error", "EmailNotValidError"), "st.stop")
        ELSE r1

\* main.py:396-403  validate_email of the recipient, then of the sender; the first
\* EmailNotValidError is shown and the run stops
ValidiereBeide(r, empfaenger, absender) ==
    LET r1 == Emit(r, "validate_email", empfaenger)
    IN  IF ~AdresseGueltig(empfaenger)
        THEN Halt(Emit(r1, "st.error", "EmailNotValidError"), "st.stop")
        ELSE LET r2 == Emit(r1, "validate_email", absender)
             IN  IF ~AdresseGueltig(absender)
                 THEN Halt(Emit(r2, "st.error", "EmailNotValidError"), "st.stop")
                 ELSE r2

Anzeige_immer_success(ergebnis) == "st.success"

\* main.py:421-424
Anzeige(ergebnis) == IF EnthaeltGesendet(ergebnis) THEN "st.success" ELSE "st.error"

\* the steps of a mail session as log texts
SmtpTexte(smtp) ==
    [i \in 1..Len(smtp) |-> IF smtp[i].ok THEN smtp[i].schritt ELSE "fehler"]

\* main.py:394-424  the click on "Bericht senden"
SchrittSenden(r, w, relay) ==
    LET v == ValidiereBeide(r, w.empfaenger, w.absender)
    IN  IF v.ende # "running" THEN v
        ELSE LET empfaenger == Normalisiert(w.empfaenger)
                 absender == Normalisiert(w.absender)
                 \* main.py:391  smtp_user = absender, before the validation
                 smtp_user == w.absender
             IN  IF ~AlleFelder(empfaenger, absender, w.smtp_server, w.smtp_port,
                                smtp_user, w.smtp_pass)
                 THEN Halt(Emit(v, "st.error", "Bitte fuelle alle Felder aus."), "st.stop")
                 ELSE LET s == sende_email(empfaenger, "Monatsbericht Finanzassistent",
                                           r.bericht, absender, w.smtp_server,
                                           w.smtp_port, smtp_user, w.smtp_pass, relay)
                          r1 == EmitAll([Emit(v, "sende_email", "") EXCEPT
                                            !.msg = s.msg, !.login = s.login,
                                            !.relay = relay],
                                        "smtp", SmtpTexte(s.smtp), 1)
                      IN  IF s.raised # "none"
                          THEN Halt(Emit(r1, "Exception", s.raised), "exception")
                          ELSE Emit(Bind([r1 EXCEPT !.ergebnis = s.ergebnis], "ergebnis"),
                                    Anzeige(s.ergebnis), s.ergebnis.text)

\* main.py:371-426
SchrittBericht(r, w, relay) ==
    IF r.ende # "running" THEN r
    ELSE IF ~AlleDatenquellen(r)
    THEN Emit(r, "st.warning", "Stelle sicher, dass alle Datenquellen vorhanden sind.")
    ELSE LET r1 == Render(r, "btn_bericht")
         IN  IF ~w.btn_bericht THEN r1
             ELSE IF "ausgaben" \notin r1.gebunden THEN NameError(r1, "ausgaben")
             ELSE IF "durchschnittsschritte" \notin r1.gebunden
             THEN NameError(r1, "durchschnittsschritte")
             ELSE IF "aktivitaeten" \notin r1.gebunden THEN NameError(r1, "aktivitaeten")
             ELSE LET bericht == erstelle_monatsbericht(r1.sparziel, r1.zeitraum,
                                     r1.monatliche_rate, r1.ausgaben, r1.praef,
                                     r1.durchschnittsschritte, r1.aktivitaeten)
                      r2 == Emit(Emit(Bind([r1 EXCEPT !.bericht = bericht], "bericht"),
                                      "erstelle_monatsbericht", ""),
                                 "st.text_area", "Monatsbericht")
                      r3 == Render(r2, "chk_email")
                  IN  IF ~w.chk_email THEN r3
                      ELSE LET r4 == [r3 EXCEPT !.rendered = @ \cup
                                        {"empfaenger", "absender", "smtp_server",
                                         "smtp_port", "smtp_pass", "btn_senden"}]
                           IN  IF ~w.btn_senden THEN r4
                               ELSE SchrittSenden(r4, w, relay)

\* main.py:275-426  one execution of the script with the widget values w, the
\* data files f and the mail relay
mainRun(w, f, relay) ==
    LET r == SchrittBericht(
                 SchrittVisualisierung(
                     SchrittFitness(
                         SchrittAusgaben(
                             SchrittLaden(SchrittEingabe(Run0, w), f)))),
                 w, relay)
    IN  IF r.ende = "running" THEN Halt(r, "ende") ELSE r

Gerufen(r, e) == \E i \in 1..Len(r.log) : r.log[i].e = e

\* the runs main can make with the widget values w: over every state of the data
\* files and, when the run reaches the mail relay, every behaviour of the relay
mainRuns(w, Dateien) ==
    UNION {LET r == mainRun(w, f, RelayOK)
           IN  IF Gerufen(r, "sende_email")
               THEN {mainRun(w, f, relay) : relay \in Relays}
               ELSE {r} : f \in Dateien}

----------------------------------------------------------------------------
(* The environment of main: the data files, the widget values.             *)

Tx(kategorie, betrag) == [kategorie |-> kategorie, betrag |-> betrag]

BeispielDaten ==
    {<<>>,
     <<Tx("Miete", -800), Tx("Lohn", 2000)>>,
     <<Tx("Lohn", 2000)>>,
     <<Tx("Essen", -50), Tx("Miete", -800), Tx("Essen", -50)>>}

BeispielPraef ==
    {EmptyDict,
     "Waehrung" :> "EUR",
     "Prioritaeten" :> ("Miete" :> "hoch" @@ "Essen" :> "mittel")}

BeispielFitness ==
    {EmptyDict,
     "Schritte_pro_Tag" :> <<10000, 6000>> @@ "Sportaktivitaeten" :> <<"Yoga">>,
     "Schritte_pro_Tag" :> <<6000, 7999>>,
     "Sportaktivitaeten" :> <<"Laufen">>,
     "Schritte_pro_Tag" :> <<>> @@ "Sportaktivitaeten" :> <<>>}

DateiZustaende(Inhalte, leer) ==
    {[status |-> "missing", inhalt |-> leer], [status |-> "malformed", inhalt |-> leer]}
    \cup {[status |-> "ok", inhalt |-> i] : i \in Inhalte}

Dateien ==
    [bank : DateiZustaende(BeispielDaten, <<>>),
     praef : DateiZustaende(BeispielPraef, EmptyDict),
     fitness : DateiZustaende(BeispielFitness, EmptyDict)]

\* main.py:282-293, 372, 385-394: the widgets and their value= defaults
Sparziele == {0, 1000, 1200}       \* min_value=0.0
Zeitraeume == {1, 3, 12}             \* min_value=1
Server == {"", "smtp.example.de"}
Passwoerter == {"", "geheim"}
Ports == {25, 587}                   \* min_value=1

Standardwerte ==
    [sparziel |-> 1200, zeitraum |-> 12, btn_bericht |-> FALSE, chk_email |-> FALSE,
     empfaenger |-> "", absender |-> "", smtp_server |-> "", smtp_port |-> 587,
     smtp_pass |-> "", btn_senden |-> FALSE]

Buttons == {"btn_bericht", "btn_senden"}
Widgets == DOMAIN Standardwerte

WerteVon(widget) ==
    CASE widget = "sparziel" -> Sparziele
      [] widget = "zeitraum" -> Zeitraeume
      [] widget \in Buttons \cup {"chk_email"} -> BOOLEAN
      [] widget \in {"empfaenger", "absender"} -> Adressen
      [] widget = "smtp_server" -> Server
      [] widget = "smtp_port" -> Ports
      [] widget = "smtp_pass" -> Passwoerter

\* every value the widget calls of one run can return, a widget the run does not
\* reach left at its default
OffeneWidgets ==
    {[Standardwerte EXCEPT !.sparziel = sz, !.zeitraum = zr, !.btn_bericht = b] :
        sz \in Sparziele, zr \in Zeitraeume, b \in BOOLEAN}
    \cup {[sparziel |-> sz, zeitraum |-> zr, btn_bericht |-> TRUE, chk_email |-> TRUE,
           empfaenger |-> e, absender |-> a, smtp_server |-> srv, smtp_port |-> 587,
           smtp_pass |-> pw, btn_senden |-> bs] :
        sz \in Sparziele, zr \in Zeitraeume, e \in Adressen, a \in Adressen,
        srv \in Server, pw \in Passwoerter, bs \in BOOLEAN}

Session0 == [werte |-> Standardwerte, rendered |-> {}, trigger |-> "load", laeufe |-> 0]

\* after a run: a button is true only in the run its click triggered, and the
\* value of a widget the run did not render is forgotten
NachLauf(s, rendered) ==
    [s EXCEPT !.rendered = rendered,
              !.werte = [wd \in Widgets |->
                            IF wd \in rendered /\ wd \notin Buttons
                            THEN s.werte[wd] ELSE Standardwerte[wd]]]

NichtGerufen == [gerufen |-> FALSE]
KeinArg == [leer |-> TRUE]

\* main.py:428-429  the script is executed
main ==
    /\ pc = "pending"
    /\ run' \in mainRuns(session.werte, Dateien)
    /\ session' = NachLauf(session, run'.rendered)
    /\ pc' = "done"
    /\ UNCHANGED <<fn, arg, ret>>

\* the user changes or clicks one widget of the page the last run rendered: the
\* script is executed again
Interact ==
    /\ pc = "done"
    /\ session.laeufe < MaxLaeufe
    /\ \E widget \in session.rendered :
         \E wert \in WerteVon(widget) :
            /\ wert # session.werte[widget]
            /\ session' = [session EXCEPT !.werte[widget] = wert,
                                          !.trigger = widget,
                                          !.laeufe = @ + 1]
    /\ run' = Run0
    /\ pc' = "pending"
    /\ UNCHANGED <<fn, arg, ret>>

InitMain ==
    /\ fn = "main" /\ arg = KeinArg /\ ret = NichtGerufen
    /\ pc = "pending" /\ session = Session0 /\ run = Run0

\* one run of main in which the widget calls return any values of their types
InitOffen ==
    /\ fn = "main" /\ arg = KeinArg /\ ret = NichtGerufen
    /\ pc = "pending" /\ run = Run0
    /\ \E w \in OffeneWidgets : session = [Session0 EXCEPT !.werte = w]

Next == main
Spec == InitOffen /\ [][Next]_vars

\* the runs of main in one browser session, under the rerun semantics of the UI
\* framework
NextRerun == main \/ Interact
SpecRerun == InitMain /\ [][NextRerun]_vars

----------------------------------------------------------------------------
(* The functions called on their own: the arguments are drawn from bounded *)
(* sets, one action per function applies it.                               *)

Summen == {0, 3, 800}
TxListen == SeqsUpTo([kategorie : Kategorien, betrag : Betraege], MaxTx)
AusgabenDicts ==
    {d \in SeqsUpTo([k : Kategorien, v : Summen], MaxKat) :
        \A i, j \in 1..Len(d) : d[i].k = d[j].k => i = j}
PrioMaps == UNION {[D -> Labels] : D \in SUBSET Kategorien}
Praefs == {EmptyDict, "Waehrung" :> "EUR"} \cup {"Prioritaeten" :> p : p \in PrioMaps}
Schrittlisten == SeqsUpTo(Schrittwerte, MaxTage)
Sportlisten == SeqsUpTo(Sportarten, MaxAkt)
Fitnessdaten ==
    {sp @@ ap : sp \in {EmptyDict} \cup {"Schritte_pro_Tag" :> x : x \in Schrittlisten},
                ap \in {EmptyDict} \cup {"Sportaktivitaeten" :> x : x \in Sportlisten}}
Durchschnitte ==
    {analysiere_fitnessdaten("Schritte_pro_Tag" :> x).durchschnittsschritte :
        x \in Schrittlisten}

ArgumenteVon(f) ==
    CASE f = "berechne_monatliche_ausgaben" -> [daten : TxListen]
      [] f = "empfehle_einsparungen" -> [ausgaben : AusgabenDicts, praef : Praefs]
      [] f = "analysiere_fitnessdaten" -> [fitnessdaten : Fitnessdaten]
      [] f = "empfehle_fitness_und_sparen" ->
            [durchschnittsschritte : Durchschnitte, aktivitaeten : Sportlisten]
      [] f = "erstelle_monatsbericht" ->
            [sparziel : Sparziele \ {0}, zeitraum : Zeitraeume,
             ausgaben : {berechne_monatliche_ausgaben(d) : d \in BeispielDaten},
             praef : BeispielPraef,
             durchschnittsschritte : Durchschnitte,
             aktivitaeten : {<<>>, <<"Yoga", "Laufen">>}]
      [] f = "berechne_monatliche_sparrate" ->
            [sparziel : Sparziele, zeitraum : Zeitraeume \cup {0}]
      [] f = "sende_email" ->
            [empfaenger : {Normalisiert(a) : a \in Adressen}, absender : Adressen,
             inhalt : {<<>>, <<[art |-> "titel_fitness"]>>},
             smtp_server : Server, smtp_port : Ports, smtp_pass : Passwoerter,
             relay : Relays]

Funktionen ==
    {"berechne_monatliche_ausgaben", "empfehle_einsparungen", "analysiere_fitnessdaten",
     "empfehle_fitness_und_sparen", "erstelle_monatsbericht",
     "berechne_monatliche_sparrate", "sende_email"}

InitFunktionen ==
    /\ fn \in Funktionen
    /\ arg \in ArgumenteVon(fn)
    /\ ret = NichtGerufen
    /\ pc = "call" /\ session = Session0 /\ run = Run0

Return(wert) ==
    /\ ret' = [gerufen |-> TRUE, wert |-> wert]
    /\ pc' = "return"
    /\ UNCHANGED <<fn, arg, session, run>>

Call_berechne_monatliche_ausgaben ==
    /\ pc = "call" /\ fn = "berechne_monatliche_ausgaben"
    /\ Return(berechne_monatliche_ausgaben(arg.daten))

Call_empfehle_einsparungen ==
    /\ pc = "call" /\ fn = "empfehle_einsparungen"
    /\ Return(empfehle_einsparungen(arg.ausgaben, arg.praef))

Call_analysiere_fitnessdaten ==
    /\ pc = "call" /\ fn = "analysiere_fitnessdaten"
    /\ Return(analysiere_fitnessdaten(arg.fitnessdaten))

Call_empfehle_fitness_und_sparen ==
    /\ pc = "call" /\ fn = "empfehle_fitness_und_sparen"
    /\ Return(empfehle_fitness_und_sparen(arg.durchschnittsschritte, arg.aktivitaeten))

\* the call with the argument objects a, as main.py:373-381 makes it
Bericht(a) ==
    erstelle_monatsbericht(a.sparziel, a.zeitraum,
        berechne_monatliche_sparrate(a.sparziel, a.zeitraum),
        a.ausgaben, a.praef, a.durchschnittsschritte, a.aktivitaeten)

\* the first call: the text returned, the argument objects as they were before
\* the call, and the argument objects as the call leaves them
Call_erstelle_monatsbericht ==
    /\ pc = "call" /\ fn = "erstelle_monatsbericht"
    /\ ret' = [gerufen |-> TRUE, wert |-> Bericht(arg), arg_vor |-> arg]
    /\ arg' = ArgumenteNach_erstelle_monatsbericht(arg)
    /\ pc' = "return"
    /\ UNCHANGED <<fn, session, run>>

\* a second call with the same argument objects; the first text is kept
Call_erstelle_monatsbericht_erneut ==
    /\ pc = "return" /\ fn = "erstelle_monatsbericht"
    /\ ret' = [ret EXCEPT !.wert = Bericht(arg)] @@ [zuvor |-> ret.wert]
    /\ arg' = ArgumenteNach_erstelle_monatsbericht(arg)
    /\ pc' = "return2"
    /\ UNCHANGED <<fn, session, run>>

Call_berechne_monatliche_sparrate ==
    /\ pc = "call" /\ fn = "berechne_monatliche_sparrate"
    /\ Return(berechne_monatliche_sparrate(arg.sparziel, arg.zeitraum))

Call_sende_email ==
    /\ pc = "call" /\ fn = "sende_email"
    /\ Return(sende_email(arg.empfaenger, "Monatsbericht Finanzassistent", arg.inhalt,
                          arg.absender, arg.smtp_server, arg.smtp_port, arg.absender,
                          arg.smtp_pass, arg.relay))

NextFunktionen ==
    \/ Call_berechne_monatliche_ausgaben
    \/ Call_empfehle_einsparungen
    \/ Call_analysiere_fitnessdaten
    \/ Call_empfehle_fitness_und_sparen
    \/ Call_erstelle_monatsbericht
    \/ Call_erstelle_monatsbericht_erneut
    \/ Call_berechne_monatliche_sparrate
    \/ Call_sende_email

SpecFunktionen == InitFunktionen /\ [][NextFunktionen]_vars

Returned(f) == pc = "return" /\ fn = f

----------------------------------------------------------------------------
(* Properties *)

RECURSIVE SummeUeber(_, _)
\* the sum of g[i] over the index set S
SummeUeber(S, g) ==
    IF S = {} THEN 0 ELSE LET i == CHOOSE x \in S : TRUE IN g[i] + SummeUeber(S \ {i}, g)

NegativeVon(daten, kategorie) ==
    {i \in 1..Len(daten) : daten[i].kategorie = kategorie /\ daten[i].betrag < 0}

Konfiguriert(praef, kategorie) ==
    IF "Prioritaeten" \in DOMAIN praef /\ kategorie \in DOMAIN praef["Prioritaeten"]
    THEN praef["Prioritaeten"][kategorie] ELSE "keins"

Faktor(label) ==
    IF label = "hoch" THEN Rat(5, 10) ELSE IF label = "mittel" THEN Rat(7, 10) ELSE Rat(9, 10)

\* the lines of a report that carry a savings recommendation
EinsparZeilen(bericht) ==
    SelectSeq(bericht, LAMBDA z : z.art = "einsparung")

C3_EineEmpfehlungJeKategorie ==
    Returned("empfehle_einsparungen") =>
        /\ Len(ret.wert) = Len(arg.ausgaben)
        /\ \A i \in 1..Len(arg.ausgaben) :
              LET label == Konfiguriert(arg.praef, arg.ausgaben[i].k)
                  prozent == IF label = "hoch" THEN 50
                             ELSE IF label = "mittel" THEN 30 ELSE 10
              IN  /\ ret.wert[i].kategorie = arg.ausgaben[i].k
                  /\ ret.wert[i].prozent = prozent
                  /\ ret.wert[i].neue_rate =
                         Rat(arg.ausgaben[i].v * (100 - prozent), 100)

\* a spend mapping with a category of unknown label and one without any
C3_Witness ==
    /\ Returned("empfehle_einsparungen")
    /\ Len(arg.ausgaben) = 2
    /\ Konfiguriert(arg.praef, arg.ausgaben[1].k) = "sehr hoch"
    /\ Konfiguriert(arg.praef, arg.ausgaben[2].k) = "keins"
    /\ arg.ausgaben[1].v = 800 /\ arg.ausgaben[2].v = 800
    /\ ret.wert[1].prozent = 10 /\ ret.wert[2].neue_rate = RatInt(720)


\* C4: analysiere_fitnessdaten raises nothing; its average is the arithmetic mean
\* of "Schritte_pro_Tag" when that is not empty and 0 when it is empty or absent;
\* the activities are returned unchanged, the empty list when the key is absent.
C4_Durchschnitt ==
    Returned("analysiere_fitnessdaten") =>
        LET f == arg.fitnessdaten
            hat == "Schritte_pro_Tag" \in DOMAIN f /\ Len(f["Schritte_pro_Tag"]) > 0
            d == ret.wert.durchschnittsschritte
        IN  /\ ret.wert.raised = "none"
            /\ hat => LET schritte == f["Schritte_pro_Tag"]
                      IN  d.z * Len(schritte) =
                              d.n * SummeUeber(1..Len(schritte), schritte)
            /\ ~hat => d = RatInt(0)
            /\ ret.wert.aktivitaeten =
                   IF "Sportaktivitaeten" \in DOMAIN f THEN f["Sportaktivitaeten"] ELSE <<>>

\* an empty step sequence, no activities key
C4_Witness ==
    /\ Returned("analysiere_fitnessdaten")
    /\ DOMAIN arg.fitnessdaten = {"Schritte_pro_Tag"}
    /\ arg.fitnessdaten["Schritte_pro_Tag"] = <<>>
    /\ ret.wert.raised = "none"
    /\ ret.wert.durchschnittsschritte = RatInt(0)
    /\ ret.wert.aktivitaeten = <<>>

FitnessZeile(bericht) == SelectSeq(bericht, LAMBDA z : z.art = "fitness")[1]

\* C5: the classification is "below target" exactly when the average is strictly
\* less than 8000 and "on target" otherwise (an average of exactly 8000 is on
\* target); the recommendation shown and the text of the report classify the
\* same average alike.
C5_Klassifikation ==
    /\ Returned("empfehle_fitness_und_sparen") =>
          LET d == arg.durchschnittsschritte
          IN  /\ ret.wert[1].st = "warning" <=> d.z < 8000 * d.n
              /\ ret.wert[1].st = "success" <=> d.z >= 8000 * d.n
    /\ Returned("erstelle_monatsbericht") =>
          LET d == arg.durchschnittsschritte
              zeile == FitnessZeile(ret.wert)
              anzeige == empfehle_fitness_und_sparen(d, arg.aktivitaeten)[1]
          IN  /\ zeile.klasse = "versuche mehr zu gehen" <=> d.z < 8000 * d.n
              /\ zeile.klasse = "weiter so" <=> d.z >= 8000 * d.n
              /\ zeile.klasse = "versuche mehr zu gehen" <=> anzeige.st = "warning"

\* the example of the spec: steps [10000, 6000], average exactly 8000, on target
C5_Witness ==
    /\ Returned("erstelle_monatsbericht")
    /\ arg.durchschnittsschritte =
           analysiere_fitnessdaten("Schritte_pro_Tag" :> <<10000, 6000>>).durchschnittsschritte
    /\ arg.durchschnittsschritte = RatInt(8000)
    /\ FitnessZeile(ret.wert).klasse = "weiter so"
    /\ empfehle_fitness_und_sparen(arg.durchschnittsschritte, arg.aktivitaeten)[1].st
           = "success"


Quellen == {"bank", "praef", "fitness"}
LaderVon(q) ==
    IF q = "bank" THEN "lade_bankdaten"
    ELSE IF q = "praef" THEN "lade_praeferenzen" ELSE "lade_fitnessdaten"
Fehlgeschlagen(r, q) == r.dateien[q].status \in {"missing", "malformed"}
Positionen(r, e) == {i \in 1..Len(r.log) : r.log[i].e = e}

\* C6: a run with goal <= 0 or horizon <= 0 shows the error and stops before any
\* computation: nothing but the two inputs is assigned, no file is read, neither
\* the rate nor anything else is computed, so the rate is never computed with
\* horizon 0; with both positive the rate is goal / horizon (1200 / 12 = 100).
C6_HaltVorBerechnung ==
    pc = "done" =>
        /\ (run.sparziel <= 0 \/ run.zeitraum <= 0) =>
              /\ run.ende = "st.stop"
              /\ run.log = <<[e |-> "st.sidebar.error", a |-> "Bitte gib positive Werte ein"]>>
              /\ run.gebunden = {"sparziel", "zeitraum"}
              /\ \A q \in Quellen : run.dateien[q].status = "ungelesen"
        /\ (run.sparziel > 0 /\ run.zeitraum > 0) =>
              /\ "monatliche_rate" \in run.gebunden
              /\ RatMul(run.monatliche_rate, RatInt(run.zeitraum)) = RatInt(run.sparziel)
              /\ (run.sparziel = 1200 /\ run.zeitraum = 12) =>
                     run.monatliche_rate = RatInt(100)
        /\ Gerufen(run, "berechne_monatliche_sparrate") => run.zeitraum # 0

\* a run with goal 0 that stopped
C6_Witness ==
    /\ pc = "done"
    /\ run.sparziel = 0 /\ run.zeitraum = 12
    /\ run.ende = "st.stop"
    /\ ~Gerufen(run, "lade_bankdaten")

\* C7: a loader whose file is missing or malformed returns its empty default and
\* shows an error, and no exception leaves it; a run in which a source failed
\* runs to the end of main and shows the spend charts when transactions loaded
\* and the fitness recommendation when fitness data loaded.
C7_LadefehlerLokal ==
    pc = "done" =>
        /\ \A q \in Quellen :
              Fehlgeschlagen(run, q) =>
                  /\ \E i \in Positionen(run, LaderVon(q)) :
                        /\ i < Len(run.log)
                        /\ run.log[i + 1].e = "st.error"
                        /\ run.log[i + 1].a =
                               IF run.dateien[q].status = "missing"
                               THEN "nicht gefunden" ELSE "Fehler beim Parsen"
                  /\ ~Gerufen(run, "Exception")
        /\ Fehlgeschlagen(run, "bank") => run.daten = <<>>
        /\ Fehlgeschlagen(run, "praef") => DOMAIN run.praef = {}
        /\ Fehlgeschlagen(run, "fitness") => DOMAIN run.fitnessdaten = {}
        /\ (\E q \in Quellen : Fehlgeschlagen(run, q)) =>
              /\ run.ende = "ende"
              /\ \A q \in Quellen : Gerufen(run, LaderVon(q))
              /\ ~Fehlgeschlagen(run, "bank") /\ run.dateien.bank.inhalt # <<>> =>
                    /\ Gerufen(run, "zeige_ausgaben.plotly_chart")
                    /\ Gerufen(run, "col1.plotly_chart")
                    /\ run.ausgaben = berechne_monatliche_ausgaben(run.dateien.bank.inhalt)
              /\ ~Fehlgeschlagen(run, "fitness") /\ DOMAIN run.dateien.fitness.inhalt # {} =>
                    /\ Gerufen(run, "empfehle_fitness_und_sparen")
                    /\ Len(run.fitness_ausgabe) > 0

\* transactions malformed, preferences missing, fitness data loaded
C7_Witness ==
    /\ pc = "done"
    /\ run.dateien.bank.status = "malformed"
    /\ run.dateien.praef.status = "missing"
    /\ run.dateien.fitness.status = "ok"
    /\ DOMAIN run.fitnessdaten = {"Schritte_pro_Tag", "Sportaktivitaeten"}
    /\ run.ende = "ende"
    /\ Len(run.fitness_ausgabe) = 2

\* C8: sende_email is called, and the mail relay contacted, only after
\* validate_email has accepted the recipient and then the sender; when
\* validate_email rejects an address the error is shown, the run stops and the
\* run neither calls sende_email nor opens a connection.
C8_ValidierungVorVersand ==
    pc = "done" =>
        /\ \A i \in Positionen(run, "sende_email") \cup Positionen(run, "smtp") :
              \E j, k \in Positionen(run, "validate_email") :
                  /\ j < k /\ k < i
                  /\ AdresseGueltig(run.log[j].a) /\ Normalisiert(run.log[j].a) = run.msg.To
                  /\ AdresseGueltig(run.log[k].a) /\ Normalisiert(run.log[k].a) = run.msg.From
        /\ \A j \in Positionen(run, "validate_email") :
              ~AdresseGueltig(run.log[j].a) =>
                  /\ j + 1 = Len(run.log)
                  /\ run.log[j + 1].e = "st.error"
                  /\ run.ende = "st.stop"
                  /\ ~Gerufen(run, "sende_email") /\ ~Gerufen(run, "smtp")
        /\ ( /\ Gerufen(run, "validate_email")
             /\ \/ ~AdresseGueltig(session.werte.empfaenger)
                \/ ~AdresseGueltig(session.werte.absender) ) =>
              /\ run.ende = "st.stop"
              /\ run.log[Len(run.log)].e = "st.error"
              /\ ~Gerufen(run, "sende_email") /\ ~Gerufen(run, "smtp")


SmtpLog(r) == SelectSeq(r.log, LAMBDA x : x.e = "smtp")

\* both addresses valid, every field filled: sende_email is called and connects
C8_Witness ==
    /\ pc = "done"
    /\ Gerufen(run, "sende_email")
    /\ run.msg.To = "Anna@example.de" /\ run.msg.From = "Anna@example.de"
    /\ Len(SmtpLog(run)) > 0 /\ SmtpLog(run)[1].a = "connect"

EmailFelder == {"empfaenger", "absender", "smtp_server", "smtp_port", "smtp_pass"}

\* C10: with all three data sources loaded the user can trigger the Notifier:
\* the run after the click on "Monatsbericht erstellen" builds the report and
\* offers the e-mail option; the run after ticking the option offers the address
\* fields and "Bericht senden"; the run after the click on "Bericht senden", with
\* valid addresses, server and password filled in, calls sende_email with the
\* report as body.
C10_BenutzerLoestVersandAus ==
    (pc = "done" /\ AlleDatenquellen(run) /\ run.ende # "exception") =>
        /\ session.trigger = "btn_bericht" =>
              /\ "bericht" \in run.gebunden
              /\ "chk_email" \in run.rendered
        /\ session.trigger = "chk_email" =>
              EmailFelder \cup {"btn_senden"} \subseteq run.rendered
        /\ ( /\ session.trigger = "btn_senden"
             /\ AdresseGueltig(session.werte.empfaenger)
             /\ AdresseGueltig(session.werte.absender)
             /\ session.werte.smtp_server # "" /\ session.werte.smtp_pass # "" ) =>
              /\ Gerufen(run, "sende_email")
              /\ run.msg.body = run.bericht

\* C10, what the code does instead: in a browser session no run of main calls
\* sende_email
SendeEmailNieErreicht == ~Gerufen(run, "sende_email")

ErsteAusgabe(daten) ==
    {i \in 1..Len(daten) :
        /\ daten[i].betrag < 0
        /\ \A j \in 1..(i - 1) :
              ~(daten[j].betrag < 0 /\ daten[j].kategorie = daten[i].kategorie)}

\* the sequence of categories kat lists them in the order of their first
\* negative-amount transaction in daten
InReihenfolgeDerErstenAusgabe(kat, daten) ==
    /\ {kat[p] : p \in 1..Len(kat)} = {daten[i].kategorie : i \in ErsteAusgabe(daten)}
    /\ \A p, q \in 1..Len(kat) :
          p < q =>
              \E i, j \in ErsteAusgabe(daten) :
                  /\ i < j
                  /\ daten[i].kategorie = kat[p]
                  /\ daten[j].kategorie = kat[q]

\* C12: the recommendations shown in the UI and the recommendation lines of the
\* report are the same sequence of (category, suggested amount, discount
\* percent), and both list the categories in the order of each category's first
\* negative-amount transaction.
C12_AnzeigeGleichBericht ==
    /\ (pc = "done" /\ Gerufen(run, "empfehle_einsparungen")) =>
          InReihenfolgeDerErstenAusgabe(
              [i \in 1..Len(run.einsparungen) |-> run.einsparungen[i].kategorie],
              run.daten)
    /\ (pc = "done" /\ Gerufen(run, "erstelle_monatsbericht")) =>
          LET zeilen == EinsparZeilen(run.bericht)
          IN  /\ Gerufen(run, "empfehle_einsparungen")
              /\ Len(zeilen) = Len(run.einsparungen)
              /\ \A i \in 1..Len(zeilen) :
                    /\ zeilen[i].kategorie = run.einsparungen[i].kategorie
                    /\ zeilen[i].text = run.einsparungen[i].text
                    /\ zeilen[i].prozent = run.einsparungen[i].prozent
              /\ InReihenfolgeDerErstenAusgabe(
                     [i \in 1..Len(zeilen) |-> zeilen[i].kategorie], run.daten)

\* a run that showed and reported two recommendations, for a category whose
\* later transaction comes after the first transaction of the other category
C12_Witness ==
    /\ pc = "done"
    /\ Gerufen(run, "empfehle_einsparungen")
    /\ Gerufen(run, "erstelle_monatsbericht")
    /\ Len(run.einsparungen) = 2
    /\ Len(EinsparZeilen(run.bericht)) = 2
    /\ run.einsparungen[1].kategorie = "Essen"
    /\ run.einsparungen[1].prozent = 30
    /\ run.einsparungen[2].kategorie = "Miete"
    /\ run.einsparungen[2].prozent = 50
    /\ run.daten[Len(run.daten)].kategorie = "Essen"

\* the steps of a mail session that the code asks for: all but the QUIT that
\* leaving the with block sends
Relaisschritte(smtp) == SelectSeq(smtp, LAMBDA x : x.schritt # "quit")

SollReihenfolge == <<"connect", "starttls", "login", "send_message">>

\* C13: within sende_email the relay steps occur in the order connect, starttls,
\* login, send: a step is attempted only after every earlier step succeeded, so
\* no login before starttls succeeded, no send before login succeeded, nothing
\* after a failing step; at most one message is sent per invocation, with the
\* subject, From and To set and the report as body.
C13_ReihenfolgeDerRelaisschritte ==
    Returned("sende_email") =>
        LET s == Relaisschritte(ret.wert.smtp)
        IN  /\ Len(s) \in 1..Len(SollReihenfolge)
            /\ \A i \in 1..Len(s) : s[i].schritt = SollReihenfolge[i]
            /\ \A i, j \in 1..Len(s) : i < j => s[i].ok
            /\ \A i, j \in 1..Len(s) :
                  (s[j].schritt = "login" /\ s[i].schritt = "starttls") => (i < j /\ s[i].ok)
            /\ \A i, j \in 1..Len(s) :
                  (s[j].schritt = "send_message" /\ s[i].schritt = "login") => (i < j /\ s[i].ok)
            /\ Cardinality({i \in 1..Len(s) : s[i].schritt = "send_message"}) <= 1
            /\ (\E i \in 1..Len(s) : s[i].schritt = "send_message") =>
                  /\ \E i \in 1..Len(s) : s[i].schritt = "login" /\ s[i].ok
                  /\ \E i \in 1..Len(s) : s[i].schritt = "starttls" /\ s[i].ok
            /\ ret.wert.msg.Subject = "Monatsbericht Finanzassistent"
            /\ ret.wert.msg.From = arg.absender
            /\ ret.wert.msg.To = arg.empfaenger
            /\ ret.wert.msg.body = arg.inhalt
            /\ ret.wert.login = <<arg.absender, arg.smtp_pass>>

\* a call whose login was refused after a successful starttls: nothing is sent
C13_Witness ==
    /\ Returned("sende_email")
    /\ arg.relay.fails = "login"
    /\ arg.inhalt # <<>>
    /\ Relaisschritte(ret.wert.smtp) =
          <<[schritt |-> "connect", ok |-> TRUE], [schritt |-> "starttls", ok |-> TRUE],
            [schritt |-> "login", ok |-> FALSE]>>
    /\ ret.wert.ergebnis.text = Fehlertext

\* a call in which every step succeeded: the one message was sent last
C13_Witness_gesendet ==
    /\ Returned("sende_email")
    /\ arg.relay.fails = "none"
    /\ Len(Relaisschritte(ret.wert.smtp)) = 4
    /\ ret.wert.ergebnis.text = Erfolgstext

\* the steps of a run that read a local of main, and the step that assigns it
LesendeSchritte(variable) ==
    IF variable = "ausgaben"
    THEN {"zeige_ausgaben.plotly_chart", "empfehle_einsparungen", "col1.plotly_chart",
          "erstelle_monatsbericht"}
    ELSE IF variable = "durchschnittsschritte"
    THEN {"empfehle_fitness_und_sparen", "erstelle_monatsbericht"}
    ELSE {"empfehle_fitness_und_sparen", "st.write", "erstelle_monatsbericht"}

ZuweisenderSchritt(variable) ==
    IF variable = "ausgaben" THEN "berechne_monatliche_ausgaben" ELSE "analysiere_fitnessdaten"

BedingteVariablen == {"ausgaben", "durchschnittsschritte", "aktivitaeten"}

\* C14: in every run of main, whatever the three loaders returned, ausgaben,
\* durchschnittsschritte and aktivitaeten are read only after they were assigned
\* in the same run (ausgaben exactly when the transaction list is non-empty, the
\* other two exactly when the fitness data is non-empty), and no run fails on an
\* undefined value.
C14_KeinUndefinierterWert ==
    pc = "done" =>
        /\ ~Gerufen(run, "NameError")
        /\ run.ende # "exception"
        /\ \A v \in BedingteVariablen :
              \A e \in LesendeSchritte(v) :
                  \A i \in Positionen(run, e) :
                      /\ v \in run.gebunden
                      /\ \E j \in Positionen(run, ZuweisenderSchritt(v)) : j < i
        /\ Gerufen(run, "lade_fitnessdaten") =>
              /\ "ausgaben" \in run.gebunden <=> run.daten # <<>>
              /\ "durchschnittsschritte" \in run.gebunden <=> DOMAIN run.fitnessdaten # {}
              /\ "aktivitaeten" \in run.gebunden <=> DOMAIN run.fitnessdaten # {}
        /\ ~Gerufen(run, "lade_fitnessdaten") => run.gebunden \cap BedingteVariablen = {}

\* a run with no transactions but with preferences and fitness data: ausgaben is
\* never assigned, the activities are read and shown, main returns
C14_Witness ==
    /\ pc = "done"
    /\ run.daten = <<>>
    /\ DOMAIN run.praef # {}
    /\ DOMAIN run.fitnessdaten # {}
    /\ "ausgaben" \notin run.gebunden
    /\ "aktivitaeten" \in run.gebunden
    /\ Gerufen(run, "st.write")
    /\ run.ende = "ende"

WarnungDatenquellen == [e |-> "st.warning", a |-> "Stelle sicher, dass alle Datenquellen vorhanden sind."]

\* C15: a report is built and a mail sent only in a run in which all three
\* loaders returned a non-empty value; a run in which one of them returned an
\* empty value ends with the warning that all data sources must be present and
\* calls neither erstelle_monatsbericht nor sende_email; the savings
\* recommendations are shown only when transactions and preferences are both
\* non-empty.
C15_BerichtNurMitAllenQuellen ==
    pc = "done" =>
        /\ ( \/ Gerufen(run, "erstelle_monatsbericht")
             \/ Gerufen(run, "sende_email")
             \/ "btn_bericht" \in run.rendered ) =>
              /\ run.daten # <<>>
              /\ DOMAIN run.praef # {}
              /\ DOMAIN run.fitnessdaten # {}
        /\ \A i \in Positionen(run, "sende_email") :
              \E j \in Positionen(run, "erstelle_monatsbericht") : j < i
        /\ ( /\ Gerufen(run, "lade_fitnessdaten")
             /\ (run.daten = <<>> \/ DOMAIN run.praef = {} \/ DOMAIN run.fitnessdaten = {}) ) =>
              /\ run.log[Len(run.log)] = WarnungDatenquellen
              /\ run.ende = "ende"
              /\ ~Gerufen(run, "erstelle_monatsbericht")
              /\ ~Gerufen(run, "sende_email")
              /\ "bericht" \notin run.gebunden
        /\ Gerufen(run, "empfehle_einsparungen") =>
              (run.daten # <<>> /\ DOMAIN run.praef # {})
        /\ (run.daten = <<>> \/ DOMAIN run.praef = {}) => run.einsparungen = <<>>

\* a run with transactions and fitness data but without preferences: the charts
\* and the fitness recommendation are shown, no savings recommendation, and the
\* run ends with the warning
C15_Witness ==
    /\ pc = "done"
    /\ Len(run.daten) = 3
    /\ DOMAIN run.praef = {}
    /\ DOMAIN run.fitnessdaten # {}
    /\ Gerufen(run, "col1.plotly_chart")
    /\ Gerufen(run, "empfehle_fitness_und_sparen")
    /\ ~Gerufen(run, "empfehle_einsparungen")
    /\ run.log[Len(run.log)] = WarnungDatenquellen

============================================================================
